---- MODULE Spec2Model ----
(***************************************************************************)
(* Reinette II (src/reinette-II.c): the 6502 interpreter, the Apple II bus *)
(* (RAM, ROM, keyboard latch, keyboard strobe, video-dirty flag) and the   *)
(* host loop of main() that runs batches of instructions, polls the        *)
(* keyboard and redraws text page 1.                                       *)
(*                                                                         *)
(* ram and rom are the C arrays, kept sparsely: a byte that is 0 is not in *)
(* the function's domain (both arrays are zero-initialised statics).       *)
(***************************************************************************)
EXTENDS Integers, Sequences, FiniteSets, TLC

VARIABLES
  rom,                \* uint8_t rom[ROMSIZE], indexed by address - ROMSTART
  ram,                \* uint8_t ram[RAMSIZE]
  ope,                \* struct Operand ope
  reg,                \* struct Register reg
  key,                \* uint8_t key, the keyboard latch
  videoNeedsRefresh,  \* bool videoNeedsRefresh
  build,              \* the order in which this build evaluates the two
                      \* pull() operands of | in RTS and in RTI
  pc,                 \* where main() is
  i,                  \* the batch counter of main()'s for loop
  ch,                 \* int ch, the last value of getch()
  screen,             \* what the video controller last handed to addch()
  drawn,              \* the video controller has drawn at least once
  bus,                \* the bus accesses of the last action, in order
  stk,                \* the addresses push() and pull() used in the last action
  hist,               \* the last instructions executed, the latest first
  jsr,                \* the latest JSR executed and whether its frame is intact
  latched,            \* the byte the keyboard controller last latched
  strobed,            \* $C010 was read or written since then
  pressed             \* how many keys getch() has returned

vars == <<rom, ram, ope, reg, key, videoNeedsRefresh, build, pc, i, ch,
          screen, drawn, bus, stk, hist, jsr, latched, strobed, pressed>>

----------------------------------------------------------------------------
(* Program constants *)

ROMSTART == 53248
ROMSIZE == 12288
RAMSIZE == 49152

CARRY == 1
ZERO == 2
INTERRUPT == 4
DECIMAL == 8
BREAK == 16
UNDEFINED == 32
OVERFLOW == 64
SIGN == 128

KBD == 49152
KBDSTRB == 49168

BATCH == 100

\* getch() values of <ncurses.h> that main() tests
ERR == -1
KEY_F7 == 271
KEY_F12 == 276

----------------------------------------------------------------------------
(* C integer arithmetic *)

U8(n) == n % 256
U16(n) == n % 65536

RECURSIVE BitAnd(_, _)
BitAnd(a, b) ==
  IF a = 0 \/ b = 0 THEN 0
  ELSE (a % 2) * (b % 2) + 2 * BitAnd(a \div 2, b \div 2)

RECURSIVE BitOr(_, _)
BitOr(a, b) ==
  IF a = 0 THEN b
  ELSE IF b = 0 THEN a
  ELSE (IF a % 2 = 1 \/ b % 2 = 1 THEN 1 ELSE 0) + 2 * BitOr(a \div 2, b \div 2)

RECURSIVE BitXor(_, _)
BitXor(a, b) ==
  IF a = 0 THEN b
  ELSE IF b = 0 THEN a
  ELSE ((a + b) % 2) + 2 * BitXor(a \div 2, b \div 2)

\* x & ~mask on an 8-bit register
BitClear(x, mask) == BitAnd(x, 255 - mask)

\* sparse byte arrays: a missing index holds 0
ByteAt(mem, a) == IF a \in DOMAIN mem THEN mem[a] ELSE 0

Store(mem, a, v) ==
  IF v = 0 THEN [x \in DOMAIN mem \ {a} |-> mem[x]]
  ELSE [x \in DOMAIN mem \cup {a} |-> IF x = a THEN v ELSE mem[x]]

----------------------------------------------------------------------------
(* MEMORY AND I/O.  A machine m is the record of the globals the CPU and   *)
(* the bus touch, with the access log beside them.                         *)

Machine ==
  [rom |-> rom, ram |-> ram, ope |-> ope, reg |-> reg, key |-> key,
   videoNeedsRefresh |-> videoNeedsRefresh, bus |-> <<>>, stk |-> <<>>]

\* the byte readMem returns
readMemValue(m, a) ==
  LET address == U16(a) IN
  IF address < RAMSIZE THEN ByteAt(m.ram, address)
  ELSE IF address >= ROMSTART THEN ByteAt(m.rom, address - ROMSTART)
  ELSE IF address = KBD THEN m.key
  ELSE IF address = KBDSTRB THEN BitAnd(m.key, 127)
  ELSE 0

\* a read of KBD that clears the strobe as well
readMemKeyStrobeOnKbd(m, address) ==
  IF address = KBDSTRB \/ address = KBD THEN BitAnd(m.key, 127) ELSE m.key

\* the latch readMem leaves: key &= 0x7F at KBDSTRB only
readMemKey(m, address) ==
  IF address = KBDSTRB THEN BitAnd(m.key, 127) ELSE m.key

\* readMem: the value, and the machine after the read
readMem(m, a) ==
  LET address == U16(a)
      value == readMemValue(m, a)
      latch == IF address < RAMSIZE \/ address >= ROMSTART
                 THEN m.key
                 ELSE readMemKey(m, address)
  IN [value |-> value,
      m |-> [m EXCEPT
               !.key = latch,
               !.bus = Append(@, [op |-> "R", address |-> address,
                                  value |-> value, before |-> m.key,
                                  after |-> latch])]]

\* the dirty test narrowed to text page 1 itself
writeMemFlagPage1Only(m, address) ==
  IF address >= 1024 /\ address < 2048 THEN TRUE ELSE m.videoNeedsRefresh

\* the dirty test on the wrong address bit
writeMemFlagBit11(m, address) ==
  IF BitAnd(address, 2048) # 0 THEN TRUE ELSE m.videoNeedsRefresh

writeMemFlag(m, address) ==
  IF BitAnd(address, 1024) # 0 THEN TRUE ELSE m.videoNeedsRefresh

writeMemRam(m, address, value) ==
  IF address < RAMSIZE THEN Store(m.ram, address, value) ELSE m.ram

\* a write that reaches the rom array
writeMemRomStores(m, address, value) ==
  IF address >= ROMSTART THEN Store(m.rom, address - ROMSTART, value) ELSE m.rom

writeMemRom(m, address, value) == m.rom

writeMemKey(m, address) ==
  IF address >= RAMSIZE /\ address = KBDSTRB THEN BitAnd(m.key, 127) ELSE m.key

writeMem(m, a, v) ==
  LET address == U16(a)
      value == U8(v)
  IN [m EXCEPT
        !.videoNeedsRefresh = writeMemFlag(m, address),
        !.ram = writeMemRam(m, address, value),
        !.rom = writeMemRom(m, address, value),
        !.key = writeMemKey(m, address),
        !.bus = Append(@, [op |-> "W", address |-> address, value |-> value,
                           before |-> m.key,
                           after |-> writeMemKey(m, address)])]

----------------------------------------------------------------------------
(* RESET *)

\* a reset that clears the accumulator as well
resetClearsA(m) ==
  LET lo == readMem(m, 65532)
      hi == readMem(lo.m, 65533)
  IN [hi.m EXCEPT
        !.reg.PC = U16(BitOr(lo.value, hi.value * 256)),
        !.reg.SP = 255,
        !.reg.SR = BitOr(@, UNDEFINED),
        !.reg.A = 0,
        !.ope = [setAcc |-> FALSE, value |-> 0, address |-> 0]]

reset(m) ==
  LET lo == readMem(m, 65532)
      hi == readMem(lo.m, 65533)
  IN [hi.m EXCEPT
        !.reg.PC = U16(BitOr(lo.value, hi.value * 256)),
        !.reg.SP = 255,
        !.reg.SR = BitOr(@, UNDEFINED),
        !.ope = [setAcc |-> FALSE, value |-> 0, address |-> 0]]

----------------------------------------------------------------------------
(* STACK, SIGN AND ZERO FLAGS ROUTINES *)

push(m, value) ==
  LET address == 256 + m.reg.SP
      w == writeMem(m, address, value)
  IN [w EXCEPT !.reg.SP = U8(m.reg.SP + 255),
               !.stk = Append(@, address)]

\* a pull whose stack pointer does not wrap at 8 bits
pullNoWrap(m) ==
  LET sp == m.reg.SP + 1
      r == readMem([m EXCEPT !.reg.SP = sp], 256 + sp)
  IN [value |-> r.value, m |-> [r.m EXCEPT !.stk = Append(@, 256 + sp)]]

pull(m) ==
  LET sp == U8(m.reg.SP + 1)
      r == readMem([m EXCEPT !.reg.SP = sp], 256 + sp)
  IN [value |-> r.value, m |-> [r.m EXCEPT !.stk = Append(@, 256 + sp)]]

setSZ(m, v) ==
  LET value == U8(v)
      z == IF value # 0 THEN BitClear(m.reg.SR, ZERO) ELSE BitOr(m.reg.SR, ZERO)
      s == IF BitAnd(value, 128) # 0 THEN BitOr(z, SIGN) ELSE BitClear(z, SIGN)
  IN [m EXCEPT !.reg.SR = s]

----------------------------------------------------------------------------
(* ADDRESSING MODES.  Each runs with reg.PC at the first operand byte.     *)

incPC(m, n) == [m EXCEPT !.reg.PC = U16(@ + n)]

\* ope.value = readMem(ope.address)
loadValue(m) ==
  LET r == readMem(m, m.ope.address)
  IN [r.m EXCEPT !.ope.value = r.value]

\* readMem(reg.PC) | (readMem(reg.PC + 1) << 8): two bytes without side
\* effects on each other, so that the order of the two reads is immaterial
readWord(m, a) ==
  LET lo == readMem(m, a)
      hi == readMem(lo.m, a + 1)
  IN [value |-> BitOr(lo.value, hi.value * 256), m |-> hi.m]

IMP(m) == m

ACC(m) == [m EXCEPT !.ope.value = m.reg.A, !.ope.setAcc = TRUE]

\* an IMM that leaves PC on its operand byte
IMMNoAdvance(m) == loadValue([m EXCEPT !.ope.address = m.reg.PC])

IMM(m) ==
  loadValue([incPC(m, 1) EXCEPT !.ope.address = m.reg.PC])

ZPG(m) ==
  LET r == readMem(incPC(m, 1), m.reg.PC)
  IN loadValue([r.m EXCEPT !.ope.address = r.value])

\* a ZPX whose sum carries into page 1
ZPXNoWrap(m) ==
  LET r == readMem(incPC(m, 1), m.reg.PC)
  IN loadValue([r.m EXCEPT !.ope.address = r.value + m.reg.X])

ZPX(m) ==
  LET r == readMem(incPC(m, 1), m.reg.PC)
  IN loadValue([r.m EXCEPT !.ope.address = BitAnd(r.value + m.reg.X, 255)])

ZPY(m) ==
  LET r == readMem(incPC(m, 1), m.reg.PC)
  IN loadValue([r.m EXCEPT !.ope.address = BitAnd(r.value + m.reg.Y, 255)])

REL(m) ==
  LET r == readMem(incPC(m, 1), m.reg.PC)
  IN [r.m EXCEPT !.ope.address =
        IF BitAnd(r.value, 128) # 0 THEN BitOr(r.value, 65280) ELSE r.value]

ABS(m) ==
  LET w == readWord(m, m.reg.PC)
  IN incPC(loadValue([w.m EXCEPT !.ope.address = U16(w.value)]), 2)

ABX(m) ==
  LET w == readWord(m, m.reg.PC)
  IN incPC(loadValue([w.m EXCEPT !.ope.address = U16(w.value + m.reg.X)]), 2)

ABY(m) ==
  LET w == readWord(m, m.reg.PC)
  IN incPC(loadValue([w.m EXCEPT !.ope.address = U16(w.value + m.reg.Y)]), 2)

IND(m) ==
  LET w == readWord(m, m.reg.PC)
      vector1 == U16(w.value)
      vector2 == BitOr(BitAnd(vector1, 65280), BitAnd(vector1 + 1, 255))
      lo == readMem(w.m, vector1)
      hi == readMem(lo.m, vector2)
  IN incPC(loadValue([hi.m EXCEPT
                        !.ope.address = U16(BitOr(lo.value, hi.value * 256))]), 2)

IDX(m) ==
  LET r == readMem(incPC(m, 1), m.reg.PC)
      vector1 == BitAnd(r.value + m.reg.X, 255)
      lo == readMem(r.m, BitAnd(vector1, 255))
      hi == readMem(lo.m, BitAnd(vector1 + 1, 255))
  IN loadValue([hi.m EXCEPT
                  !.ope.address = U16(BitOr(lo.value, hi.value * 256))])

IDY(m) ==
  LET r == readMem(incPC(m, 1), m.reg.PC)
      vector1 == r.value
      vector2 == BitOr(BitAnd(vector1, 65280), BitAnd(vector1 + 1, 255))
      lo == readMem(r.m, vector1)
      hi == readMem(lo.m, vector2)
  IN loadValue([hi.m EXCEPT
                  !.ope.address =
                    U16(BitOr(lo.value, hi.value * 256) + m.reg.Y)])

----------------------------------------------------------------------------
(* INSTRUCTIONS *)

setFlag(m, flag) == [m EXCEPT !.reg.SR = BitOr(@, flag)]
clearFlag(m, flag) == [m EXCEPT !.reg.SR = BitClear(@, flag)]
flagIf(m, cond, flag) == IF cond THEN setFlag(m, flag) ELSE clearFlag(m, flag)

NOP(m) == m

BRK(m) ==
  LET m1 == incPC(m, 1)
      m2 == push(m1, BitAnd(m1.reg.PC \div 256, 255))
      m3 == push(m2, BitAnd(m2.reg.PC, 255))
      m4 == push(m3, BitOr(m3.reg.SR, BREAK))
      m5 == setFlag(m4, INTERRUPT)
      w == readWord(m5, 65534)
  IN [w.m EXCEPT !.reg.PC = U16(w.value)]

CLD(m) == clearFlag(m, DECIMAL)
SED(m) == setFlag(m, DECIMAL)
CLC(m) == clearFlag(m, CARRY)
SEC(m) == setFlag(m, CARRY)
CLI(m) == clearFlag(m, INTERRUPT)
SEI(m) == setFlag(m, INTERRUPT)
CLV(m) == clearFlag(m, OVERFLOW)

LDA(m) == setSZ([m EXCEPT !.reg.A = U8(m.ope.value)], U8(m.ope.value))
LDX(m) == setSZ([m EXCEPT !.reg.X = U8(m.ope.value)], U8(m.ope.value))
LDY(m) == setSZ([m EXCEPT !.reg.Y = U8(m.ope.value)], U8(m.ope.value))

STA(m) == writeMem(m, m.ope.address, m.reg.A)
STX(m) == writeMem(m, m.ope.address, m.reg.X)
STY(m) == writeMem(m, m.ope.address, m.reg.Y)

DEC(m) ==
  LET v == U16(m.ope.value + 65535)
  IN setSZ(writeMem([m EXCEPT !.ope.value = v], m.ope.address, v), v)

DEX(m) == setSZ([m EXCEPT !.reg.X = U8(@ + 255)], U8(m.reg.X + 255))
DEY(m) == setSZ([m EXCEPT !.reg.Y = U8(@ + 255)], U8(m.reg.Y + 255))

INC(m) ==
  LET v == U16(m.ope.value + 1)
  IN setSZ(writeMem([m EXCEPT !.ope.value = v], m.ope.address, v), v)

INX(m) == setSZ([m EXCEPT !.reg.X = U8(@ + 1)], U8(m.reg.X + 1))
INY(m) == setSZ([m EXCEPT !.reg.Y = U8(@ + 1)], U8(m.reg.Y + 1))

TAX(m) == setSZ([m EXCEPT !.reg.X = m.reg.A], m.reg.A)
TAY(m) == setSZ([m EXCEPT !.reg.Y = m.reg.A], m.reg.A)
TXA(m) == setSZ([m EXCEPT !.reg.A = m.reg.X], m.reg.X)
TYA(m) == setSZ([m EXCEPT !.reg.A = m.reg.Y], m.reg.Y)
TSX(m) == setSZ([m EXCEPT !.reg.X = m.reg.SP], m.reg.SP)
TXS(m) == [m EXCEPT !.reg.SP = m.reg.X]

branchIf(m, cond) ==
  IF cond THEN [m EXCEPT !.reg.PC = U16(@ + m.ope.address)] ELSE m

BEQ(m) == branchIf(m, BitAnd(m.reg.SR, ZERO) # 0)
BNE(m) == branchIf(m, BitAnd(m.reg.SR, ZERO) = 0)
BMI(m) == branchIf(m, BitAnd(m.reg.SR, SIGN) # 0)
BPL(m) == branchIf(m, BitAnd(m.reg.SR, SIGN) = 0)
BVS(m) == branchIf(m, BitAnd(m.reg.SR, OVERFLOW) # 0)
BVC(m) == branchIf(m, BitAnd(m.reg.SR, OVERFLOW) = 0)
BCS(m) == branchIf(m, BitAnd(m.reg.SR, CARRY) # 0)
BCC(m) == branchIf(m, BitAnd(m.reg.SR, CARRY) = 0)

PHA(m) == push(m, m.reg.A)

\* a PLA that leaves the flags alone
PLANoFlags(m) ==
  LET p == pull(m)
  IN [p.m EXCEPT !.reg.A = p.value]

PLA(m) ==
  LET p == pull(m)
  IN setSZ([p.m EXCEPT !.reg.A = p.value], p.value)

\* a PHP that masks with BREAK where it should set it
PHPMasksBreak(m) == push(m, BitAnd(m.reg.SR, BREAK))

PHP(m) == push(m, BitOr(m.reg.SR, BREAK))

PLP(m) ==
  LET p == pull(m)
  IN [p.m EXCEPT !.reg.SR = BitOr(p.value, UNDEFINED)]

JMP(m) == [m EXCEPT !.reg.PC = m.ope.address]

JSR(m) ==
  LET m1 == [m EXCEPT !.reg.PC = U16(@ + 65535)]
      m2 == push(m1, BitAnd(m1.reg.PC \div 256, 255))
      m3 == push(m2, BitAnd(m2.reg.PC, 255))
  IN [m3 EXCEPT !.reg.PC = m.ope.address]

\* pull() | (pull() << 8): the two calls are indeterminately sequenced, so
\* the build decides which operand of | is pulled first
pullWord(m) ==
  LET first == pull(m)
      second == pull(first.m)
      lo == IF build = "left" THEN first.value ELSE second.value
      hi == IF build = "left" THEN second.value ELSE first.value
  IN [value |-> BitOr(lo, hi * 256), m |-> second.m]

RTS(m) ==
  LET w == pullWord(m)
  IN [w.m EXCEPT !.reg.PC = U16(w.value + 1)]

RTI(m) ==
  LET p == pull(m)
      w == pullWord([p.m EXCEPT !.reg.SR = p.value])
  IN [w.m EXCEPT !.reg.PC = U16(w.value)]

compare(m, r) ==
  flagIf(setSZ(m, U8(r - m.ope.value + 65536)), r >= m.ope.value, CARRY)

CMP(m) == compare(m, m.reg.A)
CPX(m) == compare(m, m.reg.X)
CPY(m) == compare(m, m.reg.Y)

AND(m) ==
  LET v == BitAnd(m.reg.A, U8(m.ope.value))
  IN setSZ([m EXCEPT !.reg.A = v], v)

ORA(m) ==
  LET v == BitOr(m.reg.A, U8(m.ope.value))
  IN setSZ([m EXCEPT !.reg.A = v], v)

EOR(m) ==
  LET v == BitXor(m.reg.A, U8(m.ope.value))
  IN setSZ([m EXCEPT !.reg.A = v], v)

BIT(m) ==
  LET z == flagIf(m, BitAnd(m.reg.A, m.ope.value) = 0, ZERO)
  IN [z EXCEPT !.reg.SR = BitOr(BitAnd(@, 63), BitAnd(m.ope.value, 192))]

\* a makeUpdates that leaves ope.setAcc as it found it
makeUpdatesKeepsAcc(m, val) ==
  setSZ(IF m.ope.setAcc
          THEN [m EXCEPT !.reg.A = val]
          ELSE writeMem(m, m.ope.address, val),
        val)

makeUpdates(m, val) ==
  setSZ(IF m.ope.setAcc
          THEN [m EXCEPT !.reg.A = val, !.ope.setAcc = FALSE]
          ELSE writeMem(m, m.ope.address, val),
        val)

ASL(m) ==
  LET result == U16(m.ope.value * 2)
  IN makeUpdates(flagIf(m, BitAnd(result, 65280) # 0, CARRY),
                 BitAnd(result, 255))

LSR(m) ==
  makeUpdates(flagIf(m, BitAnd(m.ope.value, 1) # 0, CARRY),
              BitAnd(m.ope.value \div 2, 255))

ROL(m) ==
  LET result == U16(BitOr(m.ope.value * 2, BitAnd(m.reg.SR, CARRY)))
  IN makeUpdates(flagIf(m, BitAnd(result, 256) # 0, CARRY),
                 BitAnd(result, 255))

ROR(m) ==
  LET result == U16(BitOr(m.ope.value \div 2, BitAnd(m.reg.SR, CARRY) * 128))
  IN makeUpdates(flagIf(m, BitAnd(m.ope.value, 1) # 0, CARRY),
                 BitAnd(result, 255))

\* the tail ADC and SBC share: result = reg.A + ope.value + carry, the flags,
\* the decimal adjust and the store into A
addWithCarry(m) ==
  LET a == m.reg.A
      value == m.ope.value
      result == U16(a + value + BitAnd(m.reg.SR, CARRY))
      m1 == setSZ(m, result)
      m2 == flagIf(m1,
                   BitAnd(BitAnd(BitXor(result, a), BitXor(result, value)),
                          128) # 0,
                   OVERFLOW)
      adjusted ==
        IF BitAnd(m2.reg.SR, DECIMAL) # 0
          THEN U16(result +
                   BitAnd(BitXor(BitXor(result + 102, a), value) \div 8, 34) * 3)
          ELSE result
      m3 == flagIf(m2, BitAnd(adjusted, 65280) # 0, CARRY)
  IN [m3 EXCEPT !.reg.A = BitAnd(adjusted, 255)]

\* an ADC that never sets V
ADCNoOverflow(m) ==
  [addWithCarry(m) EXCEPT !.reg.SR = BitClear(@, OVERFLOW)]

ADC(m) == addWithCarry(m)

\* an SBC without the decimal bias of 0x66
SBCNoDecimalBias(m) ==
  addWithCarry([m EXCEPT !.ope.value = BitXor(@, 255)])

SBC(m) ==
  LET flipped == BitXor(m.ope.value, 255)
      value == IF BitAnd(m.reg.SR, DECIMAL) # 0
                 THEN U16(flipped + 65536 - 102)
                 ELSE flipped
  IN addWithCarry([m EXCEPT !.ope.value = value])

\* an UND that skips the byte after the opcode
UNDSkipsByte(m) == incPC(m, 1)

UND(m) == m

----------------------------------------------------------------------------
(* JUMP TABLES, indexed by opcode + 1 *)

instruction ==
  <<
    "BRK", "ORA", "UND", "UND", "UND", "ORA", "ASL", "UND", "PHP", "ORA", "ASL", "UND", "UND", "ORA", "ASL", "UND",
    "BPL", "ORA", "UND", "UND", "UND", "ORA", "ASL", "UND", "CLC", "ORA", "UND", "UND", "UND", "ORA", "ASL", "UND",
    "JSR", "AND", "UND", "UND", "BIT", "AND", "ROL", "UND", "PLP", "AND", "ROL", "UND", "BIT", "AND", "ROL", "UND",
    "BMI", "AND", "UND", "UND", "UND", "AND", "ROL", "UND", "SEC", "AND", "UND", "UND", "UND", "AND", "ROL", "UND",
    "RTI", "EOR", "UND", "UND", "UND", "EOR", "LSR", "UND", "PHA", "EOR", "LSR", "UND", "JMP", "EOR", "LSR", "UND",
    "BVC", "EOR", "UND", "UND", "UND", "EOR", "LSR", "UND", "CLI", "EOR", "UND", "UND", "UND", "EOR", "LSR", "UND",
    "RTS", "ADC", "UND", "UND", "UND", "ADC", "ROR", "UND", "PLA", "ADC", "ROR", "UND", "JMP", "ADC", "ROR", "UND",
    "BVS", "ADC", "UND", "UND", "UND", "ADC", "ROR", "UND", "SEI", "ADC", "UND", "UND", "UND", "ADC", "ROR", "UND",
    "UND", "STA", "UND", "UND", "STY", "STA", "STX", "UND", "DEY", "UND", "TXA", "UND", "STY", "STA", "STX", "UND",
    "BCC", "STA", "UND", "UND", "STY", "STA", "STX", "UND", "TYA", "STA", "TXS", "UND", "UND", "STA", "UND", "UND",
    "LDY", "LDA", "LDX", "UND", "LDY", "LDA", "LDX", "UND", "TAY", "LDA", "TAX", "UND", "LDY", "LDA", "LDX", "UND",
    "BCS", "LDA", "UND", "UND", "LDY", "LDA", "LDX", "UND", "CLV", "LDA", "TSX", "UND", "LDY", "LDA", "LDX", "UND",
    "CPY", "CMP", "UND", "UND", "CPY", "CMP", "DEC", "UND", "INY", "CMP", "DEX", "UND", "CPY", "CMP", "DEC", "UND",
    "BNE", "CMP", "UND", "UND", "UND", "CMP", "DEC", "UND", "CLD", "CMP", "UND", "UND", "UND", "CMP", "DEC", "UND",
    "CPX", "SBC", "UND", "UND", "CPX", "SBC", "INC", "UND", "INX", "SBC", "NOP", "UND", "CPX", "SBC", "INC", "UND",
    "BEQ", "SBC", "UND", "UND", "UND", "SBC", "INC", "UND", "SED", "SBC", "UND", "UND", "UND", "SBC", "INC", "UND"
  >>

addressing ==
  <<
    "IMP", "IDX", "IMP", "IMP", "IMP", "ZPG", "ZPG", "IMP", "IMP", "IMM", "ACC", "IMP", "IMP", "ABS", "ABS", "IMP",
    "REL", "IDY", "IMP", "IMP", "IMP", "ZPX", "ZPX", "IMP", "IMP", "ABY", "IMP", "IMP", "IMP", "ABX", "ABX", "IMP",
    "ABS", "IDX", "IMP", "IMP", "ZPG", "ZPG", "ZPG", "IMP", "IMP", "IMM", "ACC", "IMP", "ABS", "ABS", "ABS", "IMP",
    "REL", "IDY", "IMP", "IMP", "IMP", "ZPX", "ZPX", "IMP", "IMP", "ABY", "IMP", "IMP", "IMP", "ABX", "ABX", "IMP",
    "IMP", "IDX", "IMP", "IMP", "IMP", "ZPG", "ZPG", "IMP", "IMP", "IMM", "ACC", "IMP", "ABS", "ABS", "ABS", "IMP",
    "REL", "IDY", "IMP", "IMP", "IMP", "ZPX", "ZPX", "IMP", "IMP", "ABY", "IMP", "IMP", "IMP", "ABX", "ABX", "IMP",
    "IMP", "IDX", "IMP", "IMP", "IMP", "ZPG", "ZPG", "IMP", "IMP", "IMM", "ACC", "IMP", "IND", "ABS", "ABS", "IMP",
    "REL", "IDY", "IMP", "IMP", "IMP", "ZPX", "ZPX", "IMP", "IMP", "ABY", "IMP", "IMP", "IMP", "ABX", "ABX", "IMP",
    "IMP", "IDX", "IMP", "IMP", "ZPG", "ZPG", "ZPG", "IMP", "IMP", "IMP", "IMP", "IMP", "ABS", "ABS", "ABS", "IMP",
    "REL", "IDY", "IMP", "IMP", "ZPX", "ZPX", "ZPY", "IMP", "IMP", "ABY", "IMP", "IMP", "IMP", "ABX", "IMP", "IMP",
    "IMM", "IDX", "IMM", "IMP", "ZPG", "ZPG", "ZPG", "IMP", "IMP", "IMM", "IMP", "IMP", "ABS", "ABS", "ABS", "IMP",
    "REL", "IDY", "IMP", "IMP", "ZPX", "ZPX", "ZPY", "IMP", "IMP", "ABY", "IMP", "IMP", "ABX", "ABX", "ABY", "IMP",
    "IMM", "IDX", "IMP", "IMP", "ZPG", "ZPG", "ZPG", "IMP", "IMP", "IMM", "IMP", "IMP", "ABS", "ABS", "ABS", "IMP",
    "REL", "IDY", "IMP", "IMP", "IMP", "ZPX", "ZPX", "IMP", "IMP", "ABY", "IMP", "IMP", "IMP", "ABX", "ABX", "IMP",
    "IMM", "IDX", "IMP", "IMP", "ZPG", "ZPG", "ZPG", "IMP", "IMP", "IMM", "IMP", "IMP", "ABS", "ABS", "ABS", "IMP",
    "REL", "IDY", "IMP", "IMP", "IMP", "ZPX", "ZPX", "IMP", "IMP", "ABY", "IMP", "IMP", "IMP", "ABX", "ABX", "IMP"
  >>

\* addressing[opcode]()
resolve(name, m) ==
  CASE name = "ABS" -> ABS(m)
    [] name = "ABX" -> ABX(m)
    [] name = "ABY" -> ABY(m)
    [] name = "ACC" -> ACC(m)
    [] name = "IDX" -> IDX(m)
    [] name = "IDY" -> IDY(m)
    [] name = "IMM" -> IMM(m)
    [] name = "IMP" -> IMP(m)
    [] name = "IND" -> IND(m)
    [] name = "REL" -> REL(m)
    [] name = "ZPG" -> ZPG(m)
    [] name = "ZPX" -> ZPX(m)
    [] name = "ZPY" -> ZPY(m)

\* instruction[opcode]()
execute(name, m) ==
  CASE name = "ADC" -> ADC(m)
    [] name = "AND" -> AND(m)
    [] name = "ASL" -> ASL(m)
    [] name = "BCC" -> BCC(m)
    [] name = "BCS" -> BCS(m)
    [] name = "BEQ" -> BEQ(m)
    [] name = "BIT" -> BIT(m)
    [] name = "BMI" -> BMI(m)
    [] name = "BNE" -> BNE(m)
    [] name = "BPL" -> BPL(m)
    [] name = "BRK" -> BRK(m)
    [] name = "BVC" -> BVC(m)
    [] name = "BVS" -> BVS(m)
    [] name = "CLC" -> CLC(m)
    [] name = "CLD" -> CLD(m)
    [] name = "CLI" -> CLI(m)
    [] name = "CLV" -> CLV(m)
    [] name = "CMP" -> CMP(m)
    [] name = "CPX" -> CPX(m)
    [] name = "CPY" -> CPY(m)
    [] name = "DEC" -> DEC(m)
    [] name = "DEX" -> DEX(m)
    [] name = "DEY" -> DEY(m)
    [] name = "EOR" -> EOR(m)
    [] name = "INC" -> INC(m)
    [] name = "INX" -> INX(m)
    [] name = "INY" -> INY(m)
    [] name = "JMP" -> JMP(m)
    [] name = "JSR" -> JSR(m)
    [] name = "LDA" -> LDA(m)
    [] name = "LDX" -> LDX(m)
    [] name = "LDY" -> LDY(m)
    [] name = "LSR" -> LSR(m)
    [] name = "NOP" -> NOP(m)
    [] name = "ORA" -> ORA(m)
    [] name = "PHA" -> PHA(m)
    [] name = "PHP" -> PHP(m)
    [] name = "PLA" -> PLA(m)
    [] name = "PLP" -> PLP(m)
    [] name = "ROL" -> ROL(m)
    [] name = "ROR" -> ROR(m)
    [] name = "RTI" -> RTI(m)
    [] name = "RTS" -> RTS(m)
    [] name = "SBC" -> SBC(m)
    [] name = "SEC" -> SEC(m)
    [] name = "SED" -> SED(m)
    [] name = "SEI" -> SEI(m)
    [] name = "STA" -> STA(m)
    [] name = "STX" -> STX(m)
    [] name = "STY" -> STY(m)
    [] name = "TAX" -> TAX(m)
    [] name = "TAY" -> TAY(m)
    [] name = "TSX" -> TSX(m)
    [] name = "TXA" -> TXA(m)
    [] name = "TXS" -> TXS(m)
    [] name = "TYA" -> TYA(m)
    [] name = "UND" -> UND(m)

----------------------------------------------------------------------------
(* main(): the video controller's glyphs *)

offsetsForRows ==
  <<1024, 1152, 1280, 1408, 1536, 1664, 1792, 1920,
    1064, 1192, 1320, 1448, 1576, 1704, 1832, 1960,
    1104, 1232, 1360, 1488, 1616, 1744, 1872, 2000>>

\* the addresses the video controller reads: 24 rows of 40 columns
TextCells ==
  UNION {{offsetsForRows[row] + col : col \in 0..39} : row \in 1..24}

\* what addch() gets for one byte of video memory: the attribute and the glyph
glyphOf(byte) ==
  LET g0 == IF byte = 96 THEN 95 ELSE byte
      attr == IF g0 < 64 THEN "A_REVERSE"
              ELSE IF g0 > 127 THEN "A_NORMAL"
              ELSE "A_BLINK"
      g1 == BitAnd(g0, 127)
      g2 == IF g1 > 95 THEN BitAnd(g1, 63) ELSE g1
      g3 == IF g2 < 32 THEN BitOr(g2, 64) ELSE g2
  IN <<attr, g3>>

\* screen keeps the cells whose byte was not 0; the others show glyphOf(0)
screenAt(a) == IF a \in DOMAIN screen THEN screen[a] ELSE glyphOf(0)

render(mem) == [a \in TextCells \cap DOMAIN mem |-> glyphOf(mem[a])]

\* main()'s key translations
translate(c) ==
  LET k0 == U8(c)
      k1 == CASE k0 = 10 -> 13
              [] k0 = 4 -> 8
              [] k0 = 5 -> 21
              [] k0 = 7 -> 8
              [] OTHER -> k0
      k2 == IF k1 > 96 /\ k1 < 123 THEN BitAnd(k1, 223) ELSE k1
  IN BitOr(k2, 128)

----------------------------------------------------------------------------
(* The ROM images the model loads.  A program is assembled at $D000 and is *)
(* followed by a jump to itself; BRK's vector leads to another such jump   *)
(* at $DF00, and the reset vector to $D000.                                *)

lo8(n) == n % 256
hi8(n) == (n \div 256) % 256

jmpTo(a) == <<76, lo8(a), hi8(a)>>

HandlerAt == 57088

\* the rom array that holds the segments <<address, bytes>>, 0 elsewhere
image(segments) ==
  LET first(sg) == sg[1] - ROMSTART
      used == UNION {first(sg)..(first(sg) + Len(sg[2]) - 1) : sg \in segments}
      at(k) ==
        LET sg == CHOOSE x \in segments :
                    k >= first(x) /\ k < first(x) + Len(x[2])
        IN sg[2][k - first(sg) + 1]
  IN [k \in {j \in used : at(j) # 0} |-> at(k)]

romImage(code) ==
  image({<<ROMSTART, code \o jmpTo(ROMSTART + Len(code))>>,
         <<HandlerAt, jmpTo(HandlerAt)>>,
         <<65532, <<lo8(ROMSTART), hi8(ROMSTART),
                    lo8(HandlerAt), hi8(HandlerAt)>>>>})

\* Wait for a key, apply one absolute-mode instruction to an address, touch
\* the strobe (or another I/O address), read the latch again, show it.
KeyProgram(opcode, address, strobeOpcode, strobeAddress) ==
  <<173, 0, 192,                            \* D000 LDA $C000
    16, 251,                                \* D003 BPL $D000
    opcode, lo8(address), hi8(address),     \* D005 <opcode> address
    strobeOpcode, lo8(strobeAddress), hi8(strobeAddress),
                                            \* D008 <strobeOpcode> $C010
    173, 0, 192,                            \* D00B LDA $C000
    141, 40, 4,                             \* D00E STA $0428
    76, 0, 208>>                            \* D011 JMP $D000

\* STA INC DEC ASL ROR, absolute
WriteOpcodes == {141, 238, 206, 14, 110}

WriteAddresses ==
  {768, 1024, 2047, 3072, 49151, 49152, 49168, 50176, 54272, 65532}

\* a key, then a subroutine call that pushes and pulls, then BRK
CallProgram ==
  <<173, 0, 192,     \* D000 LDA $C000
    16, 251,         \* D003 BPL $D000
    141, 16, 192,    \* D005 STA $C010
    32, 13, 208,     \* D008 JSR $D00D
    0, 0,            \* D00B BRK
    72,              \* D00D PHA
    8,               \* D00E PHP
    40,              \* D00F PLP
    104,             \* D010 PLA
    96>>             \* D011 RTS

\* two reads of the latch in a row, then the strobe, for ever: a batch of
\* 100 instructions ends after the JMP
TwoReadsProgram ==
  <<174, 0, 192,     \* D000 LDX $C000
    172, 0, 192,     \* D003 LDY $C000
    141, 16, 192,    \* D006 STA $C010
    76, 0, 208>>     \* D009 JMP $D000

HostImages ==
  {romImage(KeyProgram(o, a, 173, KBDSTRB)) :
     o \in WriteOpcodes, a \in WriteAddresses}
    \cup {romImage(KeyProgram(141, 1024, s, KBDSTRB)) : s \in {141, 44, 238}}
    \cup {romImage(KeyProgram(141, 1024, 173, 49153))}
    \cup {romImage(CallProgram)}
    \cup {romImage(TwoReadsProgram)}

\* Programs that are followed for their first instructions only.
\* LDX #s; TXS; LDA #f; PHA; LDA #a; PLP; PHA; PLA
PhaPlaProgram(s, f, a) == <<162, s, 154, 169, f, 72, 169, a, 40, 72, 104>>

\* LDX #s; TXS; LDA #f; PHA; PLP; PHP; PLP
PhpPlpProgram(s, f) == <<162, s, 154, 169, f, 72, 40, 8, 40>>

\* LDX #s; TXS; push $D0, $0D and f; RTI to $D00D; PHP; PLP
RtiProgram(s, f) ==
  <<162, s, 154,     \* D000 LDX #s; TXS
    169, 208, 72,    \* D003 LDA #$D0; PHA
    169, 13, 72,     \* D006 LDA #$0D; PHA
    169, f, 72,      \* D009 LDA #f; PHA
    64,              \* D00C RTI
    8, 40>>          \* D00D PHP; PLP

\* PHA PLA PHP PLP RTS RTI BRK TSX TXS
StackOpcodes == {72, 104, 8, 40, 96, 64, 0, 186, 154}

\* LDX #s; TXS; LDA #a; then two stack instructions
PairProgram(s, a, first, second) == <<162, s, 154, 169, a, first, second>>

\* LDX #s; TXS; NOPs; JSR sub; JMP *; sub: body; RTS
JsrProgram(s, pad, body) ==
  LET at == ROMSTART + 3 + pad
  IN <<162, s, 154>> \o [k \in 1..pad |-> 234]
       \o <<32, lo8(at + 6), hi8(at + 6)>> \o jmpTo(at + 3)
       \o body \o <<96>>

\* what a subroutine does before it returns: nothing; PHA PLA; PHP PLP;
\* PHA; PLA; PLA PHA; TSX INC $0101,X (the low byte of the return address)
SubroutineBodies ==
  {<<>>, <<72, 104>>, <<8, 40>>, <<72>>, <<104>>, <<104, 72>>,
   <<186, 254, 1, 1>>}

\* A JSR at $FFFD, whose operand is the BRK vector: reset leads into RAM,
\* the BRK there into the handler, which jumps to $FFFD once and returns
\* when it is called
WrapImage ==
  image({<<HandlerAt, <<176, 4,            \* DF00 BCS $DF06
                        56,                \* DF02 SEC
                        76, 253, 255,      \* DF03 JMP $FFFD
                        96>>>>,            \* DF06 RTS
         <<65533, <<32, lo8(HandlerAt), hi8(HandlerAt)>>>>})

SPValues == {0, 1, 2, 128, 254, 255}
FlagValues == {0, 16, 67, 207}
Bytes == 0..255

CpuImages ==
  {romImage(PhaPlaProgram(s, f, a)) :
     s \in SPValues, f \in FlagValues, a \in Bytes}
    \cup {romImage(PhpPlpProgram(s, f)) : s \in SPValues, f \in Bytes}
    \cup {romImage(RtiProgram(s, f)) : s \in SPValues, f \in Bytes}
    \cup {romImage(PairProgram(s, a, o1, o2)) :
            s \in {0, 1, 255}, a \in {0, 193},
            o1 \in StackOpcodes, o2 \in StackOpcodes}
    \cup {romImage(JsrProgram(s, pad, body)) :
            s \in SPValues, pad \in 0..2, body \in SubroutineBodies}
    \cup {WrapImage}

\* One instruction after a prologue that sets A, X, Y and $10 to a and SR to
\* f | 0x20:
\* LDA #a; TAX; TAY; STA $10; LDA #f; PHA; LDA #a; PLP; <code>
Setup(f, a) == <<169, a, 170, 168, 133, 16, 169, f, 72, 169, a, 40>>

ByteSamples ==
  {0, 1, 2, 9, 10, 15, 16, 64, 85, 127, 128, 129, 153, 154, 170, 240, 254, 255}

\* no flag; C; D; C and D; N V Z C
StatusSamples == {0, 1, 8, 9, 195}

\* LDA LDX LDY AND ORA EOR ADC SBC, immediate
ImmediateOpcodes == {169, 162, 160, 41, 9, 73, 105, 233}

\* TAX TAY TXA TYA TSX PLA INX INY DEX DEY, ASL LSR ROL ROR on A
ImpliedOpcodes == {170, 168, 138, 152, 186, 104, 232, 200, 202, 136,
                   10, 74, 42, 106}

\* INC DEC ASL LSR ROL ROR, zero page
ZeroPageOpcodes == {230, 198, 6, 70, 38, 102}

SignZeroImages ==
  {romImage(Setup(f, a) \o <<op, b>>) :
     f \in StatusSamples, a \in ByteSamples, op \in ImmediateOpcodes,
     b \in {0, 1, 102, 127, 128, 255}}
    \cup {romImage(Setup(f, a) \o <<op>>) :
            f \in StatusSamples, a \in ByteSamples, op \in ImpliedOpcodes}
    \cup {romImage(Setup(f, a) \o <<op, 16>>) :
            f \in StatusSamples, a \in ByteSamples, op \in ZeroPageOpcodes}

\* LDA #f; PHA; PLP; then the opcode and two bytes after it
OpcodeProgram(f, opcode, b1, b2) == <<169, f, 72, 40, opcode, b1, b2>>

\* the reset vector points at $FFFE, where the opcode is; b1 follows it and
\* RAM (all zero) after that
EndOfRomImage(opcode, b1) == image({<<65532, <<254, 255, opcode, b1>>>>})

\* the reset vector points at $FFFF, where the opcode is
LastByteImage(opcode) == image({<<65532, <<255, 255, 0, opcode>>>>})

OpcodeImages ==
  {romImage(OpcodeProgram(f, opcode, b[1], b[2])) :
     f \in {0, 195}, opcode \in Bytes,
     b \in {<<0, 0>>, <<16, 2>>, <<255, 3>>, <<255, 255>>}}
    \cup {EndOfRomImage(opcode, b1) : opcode \in Bytes, b1 \in {0, 128}}
    \cup {LastByteImage(opcode) : opcode \in Bytes}

\* LDA #$56; STA $0100; LDA #$34; STA $00; LDA #$12; STA $FF; LDX #x; LDY #x;
\* then a zero-page indexed or indirect instruction with operand byte base
PointerProgram(x, opcode, base) ==
  <<169, 86, 141, 0, 1, 169, 52, 133, 0, 169, 18, 133, 255,
    162, x, 160, x, opcode, base>>

\* LDA zp,X  STA zp,X  INC zp,X  LDX zp,Y  STX zp,Y
\* LDA (zp,X)  STA (zp,X)  LDA (zp),Y  STA (zp),Y
PointerOpcodes == {181, 149, 246, 182, 150, 161, 129, 177, 145}

\* the byte after p gets $56, the byte JMP (p) takes for the high byte $D0,
\* p gets $12: LDA #$56; STA p+1; LDA #$D0; STA v2; LDA #$12; STA p; JMP (p)
IndirectProgram(p) ==
  LET next == U16(p + 1)
      vector2 == (p \div 256) * 256 + ((p + 1) % 256)
  IN <<169, 86, 141, lo8(next), hi8(next),
       169, 208, 141, lo8(vector2), hi8(vector2),
       169, 18, 141, lo8(p), hi8(p),
       108, lo8(p), hi8(p)>>

\* $00FF $0200 $027F $02FF $BFFF
IndirectPointers == {255, 512, 639, 767, 49151}

AddressImages ==
  {romImage(PointerProgram(x, opcode, base)) :
     x \in {0, 1, 255}, opcode \in PointerOpcodes, base \in Bytes}
    \cup {romImage(IndirectProgram(p)) : p \in IndirectPointers}

\* LDX #s; TXS; LDA #f; PHA; PLP; BRK; a padding byte; PHP
InterruptProgram(s, f) ==
  <<162, s, 154,     \* D000 LDX #s; TXS
    169, f, 72,      \* D003 LDA #f; PHA
    40,              \* D006 PLP
    0, 234,          \* D007 BRK and its padding byte
    8>>              \* D009 PHP

\* the rom array with code at $D000 and an RTI where the BRK vector points
InterruptImage(code) ==
  image({<<ROMSTART, code \o jmpTo(ROMSTART + Len(code))>>,
         <<HandlerAt, <<64>>>>,
         <<65532, <<lo8(ROMSTART), hi8(ROMSTART),
                    lo8(HandlerAt), hi8(HandlerAt)>>>>})

InterruptImages ==
  {InterruptImage(InterruptProgram(s, f)) : s \in SPValues, f \in Bytes}

\* ASL LSR ROL ROR on the accumulator
AccumulatorShifts == {10, 74, 42, 106}

\* ASL LSR ROL ROR on $10, $10,X, $0010 and $0010,X
MemoryShifts ==
  {<<opcode, 16, 234>> : opcode \in {6, 70, 38, 102, 22, 86, 54, 118}}
    \cup {<<opcode, 16, 0>> : opcode \in {14, 78, 46, 110, 30, 94, 62, 126}}

\* LDA #v; STA $10; a shift of A; a shift of $10; the shift of A again; then
\* LDA ($10,X); LDA ($10),Y; LDA $0010,Y; LDX $10,Y; BNE +0
ShiftProgram(v, first, second) ==
  <<169, v, 133, 16, first>> \o second
    \o <<first, 161, 16, 177, 16, 185, 16, 0, 182, 16, 208, 0>>

ShiftImages ==
  {romImage(ShiftProgram(v, first, second)) :
     v \in {0, 1, 64, 85, 127, 128, 129, 255},
     first \in AccumulatorShifts, second \in MemoryShifts}

\* CLD or SED, then ADC #v with C clear and with C set, and SBC #v likewise,
\* each on A = a:
\* mode; CLC; LDA #a; ADC #v; SEC; LDA #a; ADC #v;
\*       CLC; LDA #a; SBC #v; SEC; LDA #a; SBC #v
AluProgram(mode, a, v) ==
  <<mode, 24, 169, a, 105, v, 56, 169, a, 105, v,
          24, 169, a, 233, v, 56, 169, a, 233, v>>

\* the bytes whose two nibbles are decimal digits
BcdBytes == {16 * h + l : h \in 0..9, l \in 0..9}

MaxInstr == 12

MaxAlu == 13

ChValues == {ERR, 97, KEY_F7, KEY_F12}

MaxKeys == 2

----------------------------------------------------------------------------
(* main() *)

EmptyMem == [a \in {} |-> 0]

InitWith(images) ==
  /\ rom \in images
  /\ build \in {"left", "right"}
  /\ ram = EmptyMem
  /\ ope = [setAcc |-> FALSE, value |-> 0, address |-> 0]
  /\ reg = [A |-> 0, X |-> 0, Y |-> 0, SR |-> 0, SP |-> 0, PC |-> 0]
  /\ key = 0
  /\ videoNeedsRefresh = TRUE
  /\ pc = "reset"
  /\ i = 0
  /\ ch = ERR
  /\ screen = EmptyMem
  /\ drawn = FALSE
  /\ bus = <<>>
  /\ stk = <<>>
  /\ hist = <<>>
  /\ jsr = [valid |-> FALSE, at |-> 0, sp |-> 0, intact |-> FALSE]
  /\ latched = 0
  /\ strobed = FALSE
  /\ pressed = 0

Init == InitWith(HostImages)

\* the globals after a CPU or reset step that ends in machine m
Commit(m) ==
  /\ rom' = m.rom
  /\ ram' = m.ram
  /\ ope' = m.ope
  /\ reg' = m.reg
  /\ key' = m.key
  /\ videoNeedsRefresh' = m.videoNeedsRefresh
  /\ bus' = m.bus
  /\ stk' = m.stk
  /\ strobed' = (strobed \/ \E j \in 1..Len(m.bus) : m.bus[j].address = KBDSTRB)

\* one turn of the for loop: fetch, decode, execute
fetch(m) ==
  LET r == readMem(m, m.reg.PC)
  IN [opcode |-> r.value, m |-> incPC(r.m, 1)]

step(m) ==
  LET f == fetch(m)
      decoded == resolve(addressing[f.opcode + 1], f.m)
  IN execute(instruction[f.opcode + 1], decoded)

\* the frame a JSR pushed with SP = sp is at 0x100 + sp and 0x100 + sp - 1
frameOf(sp) == {256 + sp, 256 + U8(sp + 255)}

writesTo(log, addresses) ==
  \E j \in 1..Len(log) : log[j].op = "W" /\ log[j].address \in addresses

Boot ==
  /\ pc = "reset"
  /\ Commit(reset(Machine))
  /\ pc' = "batch"
  /\ i' = 0
  /\ hist' = <<>>
  /\ UNCHANGED <<build, ch, screen, drawn, jsr, latched, pressed>>

Step ==
  /\ pc = "batch"
  /\ i < BATCH
  /\ LET m == step(Machine)
         opcode == readMemValue(Machine, reg.PC)
         entry == [opcode |-> opcode, name |-> instruction[opcode + 1],
                   mode |-> addressing[opcode + 1], at |-> reg.PC,
                   reg |-> reg, key |-> key,
                   videoNeedsRefresh |-> videoNeedsRefresh]
     IN /\ Commit(m)
        /\ hist' = <<entry>> \o SubSeq(hist, 1, IF Len(hist) > 0 THEN 1 ELSE 0)
        /\ jsr' = IF entry.name = "JSR"
                    THEN [valid |-> TRUE, at |-> reg.PC, sp |-> reg.SP,
                          intact |-> TRUE]
                    ELSE [jsr EXCEPT !.intact =
                            @ /\ ~writesTo(m.bus, frameOf(jsr.sp))]
  /\ i' = i + 1
  /\ pc' = IF i + 1 < BATCH THEN "batch" ELSE "kbd"
  /\ UNCHANGED <<build, ch, screen, drawn, latched, pressed>>

\* if ((ch = getch()) != ERR), with the F7 and F12 tests
PollKeyboard ==
  /\ pc = "kbd"
  /\ \E c \in IF pressed < MaxKeys THEN ChValues ELSE {ERR} :
       /\ ch' = c
       /\ pressed' = IF c = ERR THEN pressed ELSE pressed + 1
       /\ IF c = KEY_F7
            THEN Commit(reset(Machine)) /\ hist' = <<>>
            ELSE /\ UNCHANGED <<rom, ram, ope, reg, key, videoNeedsRefresh,
                                strobed, hist>>
                 /\ bus' = <<>>
                 /\ stk' = <<>>
       /\ pc' = IF c = ERR THEN "video"
                ELSE IF c = KEY_F12 THEN "exited"
                ELSE "translate"
  /\ UNCHANGED <<build, i, screen, drawn, jsr, latched>>

\* the key translations and key |= 0x80
Translate ==
  /\ pc = "translate"
  /\ key' = translate(ch)
  /\ latched' = translate(ch)
  /\ strobed' = FALSE
  /\ pc' = "video"
  /\ bus' = <<>>
  /\ stk' = <<>>
  /\ UNCHANGED <<rom, ram, ope, reg, videoNeedsRefresh, build, i, ch, screen,
                 drawn, hist, jsr, pressed>>

VideoController ==
  /\ pc = "video"
  /\ IF videoNeedsRefresh
       THEN /\ screen' = render(ram)
            /\ drawn' = TRUE
            /\ videoNeedsRefresh' = FALSE
       ELSE UNCHANGED <<screen, drawn, videoNeedsRefresh>>
  /\ pc' = "batch"
  /\ i' = 0
  /\ bus' = <<>>
  /\ stk' = <<>>
  /\ UNCHANGED <<rom, ram, ope, reg, key, build, ch, hist, jsr, latched,
                 strobed, pressed>>

Next == Boot \/ Step \/ PollKeyboard \/ Translate \/ VideoController

Spec == Init /\ [][Next]_vars

\* the first MaxInstr instructions of the first batch
RunStep == i < MaxInstr /\ Step

InitCPU == InitWith(CpuImages)

NextCPU == Boot \/ RunStep

SpecCPU == InitCPU /\ [][NextCPU]_vars

\* the same steps, over the images that exercise the flags
InitFlags == InitWith(SignZeroImages)

SpecFlags == InitFlags /\ [][NextCPU]_vars

\* the first MaxAlu instructions, over the images that add and subtract
RunAlu == i < MaxAlu /\ Step

NextAlu == Boot \/ RunAlu

\* these programs pull no word from the stack: the order that build stands
\* for is never used, and one value of it is enough
InitBinary ==
  \E a \in Bytes, v \in Bytes :
    build = "left" /\ InitWith({romImage(AluProgram(216, a, v))})

SpecBinary == InitBinary /\ [][NextAlu]_vars

InitDecimal ==
  \E a \in BcdBytes, v \in BcdBytes :
    build = "left" /\ InitWith({romImage(AluProgram(248, a, v))})

SpecDecimal == InitDecimal /\ [][NextAlu]_vars

\* over the images that run each opcode
InitOps == InitWith(OpcodeImages)

SpecOps == InitOps /\ [][NextCPU]_vars

\* over the images that exercise the addressing modes
InitAddr == InitWith(AddressImages)

SpecAddr == InitAddr /\ [][NextCPU]_vars

\* and over the images whose BRK handler is an RTI
InitBrk == InitWith(InterruptImages)

SpecBrk == InitBrk /\ [][NextCPU]_vars

\* and over the images that shift the accumulator and then memory
InitShift == InitWith(ShiftImages)

SpecShift == InitShift /\ [][NextCPU]_vars

----------------------------------------------------------------------------
(* What the last action did, read from the logs *)

\* the last action was a CPU step
Stepped == hist # <<>> /\ bus # <<>>

reads(address) ==
  {j \in 1..Len(bus) : bus[j].op = "R" /\ bus[j].address = address}

writes == {j \in 1..Len(bus) : bus[j].op = "W"}

bit(n, k) == (n \div (2 ^ k)) % 2

----------------------------------------------------------------------------
(* Keyboard latch and strobe *)

\* C1: with k the byte the keyboard controller latched (bit 7 set), the
\* latch is k until $C010 is read or written and k & 0x7F from then on until
\* the next key; a read of $C000 returns the latch and leaves it as it is, a
\* read of $C010 clears bit 7 and returns the cleared latch, a write to $C010
\* clears bit 7, and no other bus access of a CPU step changes the latch.
C1_KeyboardLatch ==
  /\ latched = 0 \/ bit(latched, 7) = 1
  /\ key = IF strobed THEN BitAnd(latched, 127) ELSE latched
  /\ \A j \in 1..Len(bus) :
       /\ bus[j].before = IF j = 1
                            THEN (IF hist # <<>> THEN hist[1].key ELSE key)
                            ELSE bus[j - 1].after
       /\ j = Len(bus) => bus[j].after = key
       /\ bus[j].address # KBDSTRB => bus[j].after = bus[j].before
       /\ bus[j].address = KBDSTRB =>
            bus[j].after = BitAnd(bus[j].before, 127)
       /\ bus[j].op = "R" /\ bus[j].address = KBD =>
            bus[j].value = bus[j].before
       /\ bus[j].op = "R" /\ bus[j].address = KBDSTRB =>
            bus[j].value = BitAnd(bus[j].before, 127)

\* a key was latched, $C010 was touched, and $C000 is read again
C1_Witness ==
  /\ bit(latched, 7) = 1
  /\ strobed
  /\ \E j \in reads(KBD) : bus[j].value = BitAnd(latched, 127)

----------------------------------------------------------------------------
(* Video-dirty flag *)

\* C2: after a CPU step, the video-dirty flag is its value before the step
\* or-ed with "some bus write of the step had bit 10 of its address set",
\* whether or not that address is backed by RAM; no step clears it.
C2_DirtyFlag ==
  Stepped =>
    (videoNeedsRefresh <=>
       (hist[1].videoNeedsRefresh
          \/ \E j \in writes : bit(bus[j].address, 10) = 1))

\* the flag was clear and a write to an I/O or ROM address with bit 10 set it
C2_Witness ==
  /\ Stepped
  /\ ~hist[1].videoNeedsRefresh
  /\ videoNeedsRefresh
  /\ \E j \in writes : bus[j].address >= RAMSIZE

\* C3: when a batch is about to start and the video controller has drawn,
\* what it last drew is the rendering of the 24 x 40 text cells as they are
\* in RAM now.
C3_NoMissedUpdate ==
  (pc = "batch" /\ i = 0 /\ drawn) =>
    \A a \in TextCells : screenAt(a) = glyphOf(ByteAt(ram, a))

\* a batch wrote a key into a text cell after the first redraw, and the
\* next batch starts with it on screen
C3_Witness ==
  /\ pc = "batch"
  /\ i = 0
  /\ pressed > 0
  /\ \E a \in TextCells :
       /\ ByteAt(ram, a) >= 128
       /\ screenAt(a) = glyphOf(ByteAt(ram, a))

----------------------------------------------------------------------------
(* ROM and the I/O hole *)

\* C9: no action changes the rom array, and a CPU step whose bus writes all
\* go to addresses >= $C000 changes no RAM byte.
C9_RomReadOnly ==
  [][/\ rom' = rom
     /\ (\A j \in 1..Len(bus') :
           bus'[j].op = "W" => bus'[j].address >= RAMSIZE) => ram' = ram]_vars

\* a CPU step wrote a non-zero byte to a ROM address
C9_Witness ==
  /\ Stepped
  /\ \E j \in writes : bus[j].address >= ROMSTART /\ bus[j].value # 0

----------------------------------------------------------------------------
(* Reset *)

\* C10: reset() loads PC from $FFFC/$FFFD, sets SP to 0xFF and bit 5 of SR,
\* clears the operand record, and leaves A, X, Y, the other bits of SR, RAM,
\* ROM, the keyboard latch and the video-dirty flag as they were.
C10_ResetFrame ==
  [][(pc = "reset" \/ (pc = "kbd" /\ ch' = KEY_F7)) =>
       /\ reg'.PC = ByteAt(rom, 65532 - ROMSTART)
                      + 256 * ByteAt(rom, 65533 - ROMSTART)
       /\ reg'.SP = 255
       /\ bit(reg'.SR, 5) = 1
       /\ \A k \in (0..7) \ {5} : bit(reg'.SR, k) = bit(reg.SR, k)
       /\ ope' = [setAcc |-> FALSE, value |-> 0, address |-> 0]
       /\ reg'.A = reg.A /\ reg'.X = reg.X /\ reg'.Y = reg.Y
       /\ ram' = ram
       /\ rom' = rom
       /\ key' = key
       /\ videoNeedsRefresh' = videoNeedsRefresh]_vars

\* F7 has reset a machine that holds a key in A and in the latch, has RAM
\* written and the video-dirty flag clear
C10_Witness ==
  /\ pc = "translate"
  /\ ch = KEY_F7
  /\ reg.SP = 255
  /\ reg.A # 0
  /\ key # 0
  /\ ram # EmptyMem
  /\ ~videoNeedsRefresh

----------------------------------------------------------------------------
(* Status register and stack *)

\* C4: after reset, bit 5 (U) of SR is 1 in every state.
C4_UnusedBitAlwaysSet == pc # "reset" => bit(reg.SR, 5) = 1

\* an RTI has left bit 5 of SR clear
C4_Witness == Stepped /\ hist[1].name = "RTI" /\ bit(reg.SR, 5) = 0

pushers == {"PHA", "PHP", "JSR", "BRK"}
pullers == {"PLA", "PLP", "RTS", "RTI"}

\* C5: SP is a byte; a push stores at $0100 + SP and decrements SP modulo
\* 256, a pull increments SP modulo 256 and reads $0100 + SP; every address
\* push and pull put on the bus is in $0100-$01FF, and the only bus writes of
\* PHA, PHP, JSR and BRK are those.
C5_StackPage ==
  /\ reg.SP \in 0..255
  /\ \A k \in 1..Len(stk) :
       /\ stk[k] \in 256..511
       /\ \E j \in 1..Len(bus) : bus[j].address = stk[k]
  /\ Stepped =>
       LET e == hist[1] IN
       /\ e.name \in pushers =>
            /\ \A k \in 1..Len(stk) : stk[k] = 256 + U8(e.reg.SP + 257 - k)
            /\ reg.SP = U8(e.reg.SP + 256 - Len(stk))
            /\ Len(stk) = (CASE e.name = "JSR" -> 2 [] e.name = "BRK" -> 3
                             [] OTHER -> 1)
            /\ \A j \in writes : \E k \in 1..Len(stk) : bus[j].address = stk[k]
       /\ e.name \in pullers =>
            /\ \A k \in 1..Len(stk) : stk[k] = 256 + U8(e.reg.SP + k)
            /\ reg.SP = U8(e.reg.SP + Len(stk))
            /\ Len(stk) = (CASE e.name = "RTS" -> 2 [] e.name = "RTI" -> 3
                             [] OTHER -> 1)
       /\ e.name \notin pushers \cup pullers => stk = <<>>

\* a PHA with SP = 0x00 wrote $0100 and left SP = 0xFF, and the PLA after it
\* read $0100 and left SP = 0x00
C5_Witness ==
  /\ Stepped
  /\ Len(hist) = 2
  /\ hist[2].name = "PHA" /\ hist[2].reg.SP = 0
  /\ hist[1].name = "PLA" /\ hist[1].reg.SP = 255
  /\ reg.SP = 0
  /\ stk = <<256>>

\* C6: an RTS that runs with SP at the value the latest JSR left and with
\* the two bytes that JSR pushed never written since, returns to the JSR's
\* address + 3 (mod 2^16) with SP as it was before the JSR.
C6_JsrRtsReturns ==
  (Stepped /\ hist[1].name = "RTS" /\ jsr.valid /\ jsr.intact
     /\ hist[1].reg.SP = U8(jsr.sp + 254)) =>
    /\ reg.PC = U16(jsr.at + 3)
    /\ reg.SP = jsr.sp

\* where the right operand of RTS's | is evaluated first, such an RTS has
\* returned somewhere else
C6_Witness ==
  /\ Stepped /\ hist[1].name = "RTS" /\ jsr.valid /\ jsr.intact
  /\ hist[1].reg.SP = U8(jsr.sp + 254)
  /\ build = "right"
  /\ reg.PC # U16(jsr.at + 3)
  /\ reg.SP = jsr.sp

\* C7: PHA immediately followed by PLA leaves A, X, Y and SP as they were
\* before the PHA, sets Z and N from A and leaves the other bits of SR.
C7_PhaPla ==
  (Stepped /\ Len(hist) = 2 /\ hist[1].name = "PLA" /\ hist[2].name = "PHA") =>
    LET before == hist[2].reg IN
    /\ reg.A = before.A
    /\ reg.SP = before.SP
    /\ reg.X = before.X
    /\ reg.Y = before.Y
    /\ bit(reg.SR, 1) = (IF reg.A = 0 THEN 1 ELSE 0)
    /\ bit(reg.SR, 7) = bit(reg.A, 7)
    /\ \A k \in {0, 2, 3, 4, 5, 6} : bit(reg.SR, k) = bit(before.SR, k)

\* PHA; PLA ran with SP = 0x00, A negative, and Z set and N clear before
C7_Witness ==
  /\ Stepped /\ Len(hist) = 2
  /\ hist[1].name = "PLA" /\ hist[2].name = "PHA"
  /\ hist[2].reg.SP = 0
  /\ hist[2].reg.A >= 128
  /\ bit(hist[2].reg.SR, 1) = 1
  /\ bit(hist[2].reg.SR, 7) = 0
  /\ bit(hist[2].reg.SR, 0) = 1

\* C8: PHP immediately followed by PLP leaves the N, V, D, I, Z and C bits
\* of SR and SP as they were before the PHP, with U set.
C8_PhpPlp ==
  (Stepped /\ Len(hist) = 2 /\ hist[1].name = "PLP" /\ hist[2].name = "PHP") =>
    /\ \A k \in {0, 1, 2, 3, 6, 7} : bit(reg.SR, k) = bit(hist[2].reg.SR, k)
    /\ reg.SP = hist[2].reg.SP
    /\ bit(reg.SR, 5) = 1

\* PHP; PLP ran with SP = 0x00 and with U and B clear, N and C set in SR
C8_Witness ==
  /\ Stepped /\ Len(hist) = 2
  /\ hist[1].name = "PLP" /\ hist[2].name = "PHP"
  /\ hist[2].reg.SP = 0
  /\ bit(hist[2].reg.SR, 5) = 0
  /\ bit(hist[2].reg.SR, 4) = 0
  /\ bit(hist[2].reg.SR, 7) = 1
  /\ bit(hist[2].reg.SR, 0) = 1

----------------------------------------------------------------------------
(* Flags *)

toA == {"LDA", "TXA", "TYA", "PLA", "AND", "ORA", "EOR", "ADC", "SBC"}
toX == {"LDX", "TAX", "TSX", "INX", "DEX"}
toY == {"LDY", "TAY", "INY", "DEY"}
toMemory == {"INC", "DEC"}
shifts == {"ASL", "LSR", "ROL", "ROR"}

\* the byte the last bus write of the step stored
written == bus[CHOOSE j \in writes : \A k \in writes : k <= j].value

\* the 8-bit result of the instruction that has just run
resultOf(e) ==
  IF e.name \in toA \/ (e.name \in shifts /\ e.mode = "ACC") THEN reg.A
  ELSE IF e.name \in toX THEN reg.X
  ELSE IF e.name \in toY THEN reg.Y
  ELSE written

C12_BreakOnlyPushed ==
  /\ pc # "reset" => bit(reg.SR, 4) = 0
  /\ (Stepped /\ hist[1].name \in {"PHP", "BRK"}) =>
       /\ bit(written, 4) = 1
       /\ bit(reg.SR, 4) = bit(hist[1].reg.SR, 4)

\* PHP; PLP has run with bit 4 clear before and left it set
C12_Witness ==
  /\ Stepped /\ Len(hist) = 2
  /\ hist[1].name = "PLP" /\ hist[2].name = "PHP"
  /\ bit(hist[2].reg.SR, 4) = 0
  /\ bit(reg.SR, 4) = 1

----------------------------------------------------------------------------
(* The dispatch tables against the 6502 opcode map *)

\* the documented opcodes with no operand byte (implied, accumulator)
NoOperandByte ==
  {0, 8, 10, 24, 40, 42, 56, 64, 72, 74, 88, 96, 104, 106, 120, 136,
   138, 152, 154, 168, 170, 184, 186, 200, 202, 216, 232, 234, 248}

\* immediate, zero page, zero page indexed, (zp,X), (zp),Y, relative
OneOperandByte ==
  {1, 5, 6, 9, 16, 17, 21, 22, 33, 36, 37, 38, 41, 48, 49, 53,
   54, 65, 69, 70, 73, 80, 81, 85, 86, 97, 101, 102, 105, 112, 113, 117,
   118, 129, 132, 133, 134, 144, 145, 148, 149, 150, 160, 161, 162, 164, 165, 166,
   169, 176, 177, 180, 181, 182, 192, 193, 196, 197, 198, 201, 208, 209, 213, 214,
   224, 225, 228, 229, 230, 233, 240, 241, 245, 246}

\* absolute, absolute indexed, indirect
TwoOperandBytes ==
  {13, 14, 25, 29, 30, 32, 44, 45, 46, 57, 61, 62, 76, 77, 78, 89,
   93, 94, 108, 109, 110, 121, 125, 126, 140, 141, 142, 153, 157, 172, 173, 174,
   185, 188, 189, 190, 204, 205, 206, 217, 221, 222, 236, 237, 238, 249, 253, 254}

Documented == NoOperandByte \cup OneOperandByte \cup TwoOperandBytes

operandBytes(opcode) ==
  IF opcode \in TwoOperandBytes THEN 2
  ELSE IF opcode \in OneOperandByte THEN 1
  ELSE 0

\* BPL BMI BVC BVS BCC BCS BNE BEQ, whose condition holds in sr
taken(opcode, sr) ==
  \/ opcode = 16 /\ bit(sr, 7) = 0
  \/ opcode = 48 /\ bit(sr, 7) = 1
  \/ opcode = 80 /\ bit(sr, 6) = 0
  \/ opcode = 112 /\ bit(sr, 6) = 1
  \/ opcode = 144 /\ bit(sr, 0) = 0
  \/ opcode = 176 /\ bit(sr, 0) = 1
  \/ opcode = 208 /\ bit(sr, 1) = 0
  \/ opcode = 240 /\ bit(sr, 1) = 1

\* BRK JSR RTI JMP RTS JMP()
jumps == {0, 32, 64, 76, 96, 108}

\* C13: a step that executes a documented opcode other than a taken branch,
\* JMP, JSR, RTS, RTI or BRK moves PC by 1 + its canonical operand byte
\* count, modulo 2^16; a step that executes any undocumented opcode moves PC
\* by 1.
C13_InstructionLength ==
  Stepped =>
    LET e == hist[1] IN
    /\ (e.opcode \in Documented \ jumps /\ ~taken(e.opcode, e.reg.SR)) =>
         reg.PC = U16(e.at + 1 + operandBytes(e.opcode))
    /\ e.opcode \notin Documented => reg.PC = U16(e.at + 1)

\* an absolute-mode instruction at $FFFE has moved PC round to $0001
C13_Witness ==
  /\ Stepped
  /\ hist[1].opcode \in TwoOperandBytes \ jumps
  /\ hist[1].at = 65534
  /\ reg.PC = 1

\* C14: a step that executes an opcode byte that is not a documented opcode
\* leaves A, X, Y, SP, SR, RAM, ROM, the video-dirty flag and the operand
\* record as they were and adds 1 to PC; the latch changes only by the fetch
\* itself, when the opcode byte is fetched from $C010.
C14_UndocumentedNoOp ==
  [][(pc = "batch" /\ readMemValue(Machine, reg.PC) \notin Documented) =>
       /\ reg' = [reg EXCEPT !.PC = U16(@ + 1)]
       /\ ram' = ram
       /\ rom' = rom
       /\ videoNeedsRefresh' = videoNeedsRefresh
       /\ ope' = ope
       /\ (key' = key \/ reg.PC = KBDSTRB)
       /\ Len(bus') = 1 /\ bus'[1].op = "R" /\ bus'[1].address = reg.PC]_vars

\* an undocumented opcode has run on a machine whose registers, operand
\* record and RAM are not all zero
C14_Witness ==
  /\ Stepped
  /\ hist[1].opcode \notin Documented
  /\ reg.PC = U16(hist[1].at + 1)
  /\ reg.A # 0 /\ reg.SR # UNDEFINED
  /\ ope.address # 0 /\ ope.value # 0
  /\ ram # EmptyMem

----------------------------------------------------------------------------
(* Address arithmetic *)

\* the byte a bus read of the step returned from address a
readValue(a) == bus[CHOOSE j \in reads(a) : TRUE].value

\* the address in the same page as p, one byte further, wrapping in the page
nextInPage(p) == (p \div 256) * 256 + ((p + 1) % 256)

\* C15: JMP (p) takes its target from p and from the next byte of p's page;
\* zero-page,X and zero-page,Y address (base + index) & 0xFF; (zp,X) and
\* (zp),Y read both pointer bytes in page zero; and these steps touch no
\* other address than the instruction's bytes, the pointer and the operand.
C15_PageWrap ==
  Stepped =>
    LET e == hist[1]
        base == readValue(U16(e.at + 1))
        own == {e.at, U16(e.at + 1), U16(e.at + 2)}
        touched == {bus[j].address : j \in 1..Len(bus)}
    IN
    /\ e.mode = "IND" =>
         LET p == base + 256 * readValue(U16(e.at + 2)) IN
         /\ reads(p) # {} /\ reads(nextInPage(p)) # {}
         /\ ope.address = readValue(p) + 256 * readValue(nextInPage(p))
         /\ touched \subseteq own \cup {p, nextInPage(p), ope.address}
         /\ e.name = "JMP" => reg.PC = ope.address
    /\ e.mode = "ZPX" =>
         /\ ope.address = (base + e.reg.X) % 256
         /\ touched \subseteq {e.at, U16(e.at + 1), ope.address}
    /\ e.mode = "ZPY" =>
         /\ ope.address = (base + e.reg.Y) % 256
         /\ touched \subseteq {e.at, U16(e.at + 1), ope.address}
    /\ e.mode = "IDX" =>
         LET vector1 == (base + e.reg.X) % 256 IN
         /\ reads(vector1) # {} /\ reads(nextInPage(vector1)) # {}
         /\ nextInPage(vector1) < 256
         /\ ope.address =
              readValue(vector1) + 256 * readValue(nextInPage(vector1))
         /\ touched \subseteq
              {e.at, U16(e.at + 1), vector1, nextInPage(vector1), ope.address}
    /\ e.mode = "IDY" =>
         /\ reads(base) # {} /\ reads(nextInPage(base)) # {}
         /\ nextInPage(base) < 256
         /\ ope.address =
              U16(readValue(base) + 256 * readValue(nextInPage(base))
                    + e.reg.Y)
         /\ touched \subseteq
              {e.at, U16(e.at + 1), base, nextInPage(base), ope.address}

\* STA ($FE,X) with X = 1 has taken its pointer from $FF and $00, with
\* another byte at $0100, and stored there
C15_Witness ==
  /\ Stepped
  /\ hist[1].name = "STA" /\ hist[1].mode = "IDX"
  /\ readValue(U16(hist[1].at + 1)) = 254 /\ hist[1].reg.X = 1
  /\ ByteAt(ram, 256) # ByteAt(ram, 0)
  /\ ope.address = ByteAt(ram, 255) + 256 * ByteAt(ram, 0)
  /\ ope.address # ByteAt(ram, 255) + 256 * ByteAt(ram, 256)
  /\ \E j \in writes : bus[j].address = ope.address

----------------------------------------------------------------------------
(* Two reads of the keyboard latch *)

\* the register a load instruction fills, in register file r
loaded(name, r) ==
  CASE name = "LDA" -> r.A [] name = "LDX" -> r.X [] name = "LDY" -> r.Y

\* the operand word of an absolute-mode instruction
operandWord(e) ==
  readMemValue(Machine, e.at + 1) + 256 * readMemValue(Machine, e.at + 2)

\* the last two steps, in one batch, were absolute loads from $C000 and the
\* latch had bit 7 set before the first
TwoReadsOfKbd ==
  /\ Stepped /\ Len(hist) = 2 /\ i >= 2
  /\ \A k \in {1, 2} :
       /\ hist[k].name \in {"LDA", "LDX", "LDY"}
       /\ hist[k].mode = "ABS"
       /\ operandWord(hist[k]) = KBD
  /\ bit(hist[2].key, 7) = 1

\* C16 as stated: of two reads of $C000 in a row, with the latch k holding
\* bit 7 and nothing delivered or strobed in between, the first returns k
\* and the second k & 0x7F.
C16_ReadClearsStrobe ==
  TwoReadsOfKbd =>
    /\ loaded(hist[2].name, hist[1].reg) = hist[2].key
    /\ loaded(hist[1].name, reg) = BitAnd(hist[2].key, 127)

\* C16 as the code has it: both reads return k and the latch is still k.
C16_ReadKeepsLatch ==
  TwoReadsOfKbd =>
    /\ loaded(hist[2].name, hist[1].reg) = hist[2].key
    /\ loaded(hist[1].name, reg) = hist[2].key
    /\ hist[1].key = hist[2].key
    /\ key = hist[2].key

\* LDX $C000; LDY $C000 has run on a latched key
C16_Witness ==
  /\ TwoReadsOfKbd
  /\ hist[2].name = "LDX" /\ hist[1].name = "LDY"
  /\ latched = hist[2].key
  /\ ~strobed

----------------------------------------------------------------------------
(* ADC and SBC *)

signed(x) == IF x >= 128 THEN x - 256 ELSE x

\* packed BCD
dec(x) == 10 * (x \div 16) + (x % 16)
bcd(n) == 16 * (n \div 10) + (n % 10)

\* an ADC or SBC has just run, with D as given before it
Added(d) ==
  /\ Stepped
  /\ hist[1].name \in {"ADC", "SBC"}
  /\ bit(hist[1].reg.SR, 3) = d

\* C17: in decimal mode, on packed-BCD A and value, ADC leaves the BCD of
\* (dec(A) + dec(value) + C) mod 100 in A with C set exactly when the sum is
\* >= 100, and SBC the BCD of (dec(A) - dec(value) - (1 - C)) mod 100 with C
\* set exactly when there was no borrow.
C17_DecimalArithmetic ==
  (Added(1) /\ hist[1].reg.A \in BcdBytes
     /\ readValue(ope.address) \in BcdBytes) =>
    LET a == dec(hist[1].reg.A)
        v == dec(readValue(ope.address))
        c == bit(hist[1].reg.SR, 0)
        sum == a + v + c
        difference == a - v - (1 - c)
    IN IF hist[1].name = "ADC"
         THEN /\ reg.A = bcd(sum % 100)
              /\ bit(reg.SR, 0) = (IF sum >= 100 THEN 1 ELSE 0)
         ELSE /\ reg.A = bcd((difference + 100) % 100)
              /\ bit(reg.SR, 0) = (IF difference >= 0 THEN 1 ELSE 0)

\* ADC #$27 with A = 0x15, C = 0, D = 1 has left A = 0x42, C = 0
C17_Witness ==
  /\ Added(1)
  /\ hist[1].name = "ADC"
  /\ hist[1].reg.A = 21 /\ readValue(ope.address) = 39
  /\ bit(hist[1].reg.SR, 0) = 0
  /\ reg.A = 66
  /\ bit(reg.SR, 0) = 0

\* C18: in binary mode ADC leaves (A + value + C) mod 256 in A, C = carry
\* out, V = signed overflow; SBC leaves (A - value - (1 - C)) mod 256, C = no
\* borrow, V = signed overflow; N and Z reflect the new A.
C18_BinaryArithmetic ==
  Added(0) =>
    LET a == hist[1].reg.A
        v == readValue(ope.address)
        c == bit(hist[1].reg.SR, 0)
        sum == a + v + c
        difference == a - v - (1 - c)
        signedSum == signed(a) + signed(v) + c
        signedDifference == signed(a) - signed(v) - (1 - c)
    IN /\ IF hist[1].name = "ADC"
            THEN /\ reg.A = sum % 256
                 /\ bit(reg.SR, 0) = (IF sum > 255 THEN 1 ELSE 0)
                 /\ bit(reg.SR, 6) =
                      (IF signedSum \in -128..127 THEN 0 ELSE 1)
            ELSE /\ reg.A = (difference + 256) % 256
                 /\ bit(reg.SR, 0) = (IF a >= v + (1 - c) THEN 1 ELSE 0)
                 /\ bit(reg.SR, 6) =
                      (IF signedDifference \in -128..127 THEN 0 ELSE 1)
       /\ bit(reg.SR, 1) = (IF reg.A = 0 THEN 1 ELSE 0)
       /\ bit(reg.SR, 7) = bit(reg.A, 7)

\* ADC #$50 with A = 0x50, C = 0, D = 0 has left A = 0xA0, N = 1, V = 1,
\* Z = 0, C = 0
C18_Witness ==
  /\ Added(0)
  /\ hist[1].name = "ADC"
  /\ hist[1].reg.A = 80 /\ readValue(ope.address) = 80
  /\ bit(hist[1].reg.SR, 0) = 0
  /\ reg.A = 160
  /\ reg.SR = BitOr(BitOr(SIGN, OVERFLOW), UNDEFINED)

----------------------------------------------------------------------------
(* BRK and RTI *)

\* the bytes a step wrote, in the order it wrote them
RECURSIVE writtenFrom(_)
writtenFrom(j) ==
  IF j > Len(bus) THEN <<>>
  ELSE (IF bus[j].op = "W" THEN <<[address |-> bus[j].address,
                                   value |-> bus[j].value]>>
        ELSE <<>>) \o writtenFrom(j + 1)

\* BRK at a with SP = sp and SR = sr has pushed the high byte of a + 2, the
\* low byte of a + 2 and sr | 0x10, set I and loaded PC from $FFFE/$FFFF
BrkEnters ==
  (Stepped /\ hist[1].name = "BRK") =>
    LET e == hist[1]
        back == U16(e.at + 2)
    IN /\ writtenFrom(1) =
            <<[address |-> 256 + e.reg.SP, value |-> hi8(back)],
              [address |-> 256 + U8(e.reg.SP + 255), value |-> lo8(back)],
              [address |-> 256 + U8(e.reg.SP + 254),
               value |-> BitOr(e.reg.SR, BREAK)]>>
       /\ reg.SP = U8(e.reg.SP + 253)
       /\ reg.SR = BitOr(e.reg.SR, INTERRUPT)
       /\ reg.PC = readMemValue(Machine, 65534)
                     + 256 * readMemValue(Machine, 65535)

\* the RTI that runs right after a BRK, on the three bytes it pushed
RtiAfterBrk ==
  /\ Stepped /\ Len(hist) = 2
  /\ hist[2].name = "BRK" /\ hist[1].name = "RTI"
  /\ hist[1].reg.SP = U8(hist[2].reg.SP + 253)

RtiReturns ==
  RtiAfterBrk =>
    /\ reg.PC = U16(hist[2].at + 2)
    /\ reg.SP = hist[2].reg.SP
    /\ \A k \in {0, 1, 2, 3, 6, 7} : bit(reg.SR, k) = bit(hist[2].reg.SR, k)

\* C19: a BRK at a pushes the high byte of a + 2, the low byte of a + 2 and
\* SR | 0x10 in this order, sets I and loads PC from $FFFE/$FFFF; an RTI that
\* runs with SP at its post-BRK value and the three bytes unmodified leaves
\* PC = (a + 2) mod 2^16, SP at its pre-BRK value and N, V, D, I, Z, C as
\* they were before the BRK.
C19_BrkRtiRoundTrip == BrkEnters /\ RtiReturns

\* where the right operand of RTI's | is evaluated first, the RTI after a
\* BRK at $D007 has left PC = $09D0, with SP and the flags restored
C19_Witness ==
  /\ RtiAfterBrk
  /\ build = "right"
  /\ hist[2].at = 53255
  /\ reg.PC = 2512
  /\ reg.SP = hist[2].reg.SP
  /\ \A k \in {0, 1, 2, 3, 6, 7} : bit(reg.SR, k) = bit(hist[2].reg.SR, k)

\* the same round trip where the left operand is evaluated first
C19_LeftToRight == build = "left" => RtiReturns

----------------------------------------------------------------------------
(* operand.setAcc *)

\* what ASL, LSR, ROL and ROR make of a byte and the carry
shifted(name, value, carry) ==
  CASE name = "ASL" -> (value * 2) % 256
    [] name = "LSR" -> value \div 2
    [] name = "ROL" -> (value * 2 + carry) % 256
    [] name = "ROR" -> value \div 2 + 128 * carry

\* the operand as the resolver of the next instruction leaves it
nextOperand ==
  LET f == fetch(Machine)
  IN [mode |-> addressing[f.opcode + 1],
      ope |-> resolve(addressing[f.opcode + 1], f.m).ope]

\* C20: after any resolver other than ACC has run, operand.setAcc is false,
\* whatever ran before; ASL, LSR, ROL and ROR with a memory addressing mode
\* write their result to operand.address and leave A unchanged, and with
\* accumulator mode they write A and perform no bus write.
C20_SetAccOnlyForAcc ==
  /\ \A opcode \in 0..255 :
       addressing[opcode + 1] = "ACC" => instruction[opcode + 1] \in shifts
  /\ pc # "reset" => ~ope.setAcc
  /\ pc = "batch" =>
       (nextOperand.ope.setAcc => nextOperand.mode = "ACC")
  /\ (Stepped /\ hist[1].name \in shifts) =>
       LET e == hist[1]
           carry == bit(e.reg.SR, 0)
       IN IF e.mode = "ACC"
            THEN /\ writes = {}
                 /\ reg.A = shifted(e.name, e.reg.A, carry)
            ELSE /\ writtenFrom(1) =
                      <<[address |-> ope.address,
                         value |-> shifted(e.name, ope.value, carry)]>>
                 /\ ByteAt(ram, ope.address) = shifted(e.name, ope.value, carry)
                 /\ reg.A = e.reg.A

\* ASL A on $81 left A = $02 and C set, and the ROL $10 after it has made
\* $10 = $03 of $81 and left A alone
C20_Witness ==
  /\ Stepped /\ Len(hist) = 2
  /\ hist[2].name = "ASL" /\ hist[2].mode = "ACC" /\ hist[2].reg.A = 129
  /\ hist[1].name = "ROL" /\ hist[1].mode = "ZPG"
  /\ ~ope.setAcc
  /\ ope.address = 16
  /\ ByteAt(ram, 16) = 3
  /\ reg.A = 2

====
